---- MODULE Spec2Model ----
(***************************************************************************)
(* The watch-later store of Movie-Hub and the controls that render it.     *)
(*                                                                         *)
(* The repository holds two generations of the site.  "StreamVerse"        *)
(* (src/js/main.js with the pages js/movie.js and js/tv.js) keeps its list *)
(* under the key 'streamVerseWatchLater'; "Aurora" (script.js, explore.js, *)
(* movie.js, tv.js, watch-later.js) keeps it under 'watchLaterItems'.      *)
(* A browsing session runs one of the two; `site` says which.              *)
(***************************************************************************)
EXTENDS Integers, Sequences, FiniteSets, TLC

\* ---------------------------------------------------------------- bounds
MaxItems == 3       \* titles in the catalogue of the metadata API
MaxControls == 2    \* save controls rendered on one page

MediaTypes == {"movie", "tv"}

\* ------------------------------------------------------- the metadata API
\* The catalogue in its ranking order: (1, movie), (1, tv), (2, movie), ...
\* Movies and series are numbered separately, so an id can name one of each.
CatalogId(n) == (n + 1) \div 2
CatalogType(n) == IF n % 2 = 1 THEN "movie" ELSE "tv"
Ids == { CatalogId(n) : n \in 1..MaxItems }

\* vote_average as the API delivers it: a number, 0, or no field at all
\* (movie 1 is rated 0, movie 2 has no rating).
ApiVoteAverage(id, media_type) ==
  IF media_type = "tv" THEN "7.5"
  ELSE IF id = 1 THEN "0" ELSE IF id = 2 THEN "undefined" ELSE "7.5"

ApiItem(id, media_type) ==
  [id |-> id, media_type |-> media_type, vote_average |-> ApiVoteAverage(id, media_type)]

Catalog == [n \in 1..MaxItems |-> ApiItem(CatalogId(n), CatalogType(n))]

\* API responses: result lists of 1..n titles, each title once, in ranking order.
ApiResults(n) ==
  { SelectSeq(Catalog, LAMBDA item : item \in S) :
      S \in { T \in SUBSET { Catalog[k] : k \in 1..MaxItems } :
                Cardinality(T) \in 1..n } }

\* ------------------------------------------------------ JavaScript values
\* A value JSON.parse can return: an array of records, or something else.
JsArray(items) == [t |-> "array", items |-> items]
JsOther(t) == [t |-> t, items |-> <<>>]

\* What localStorage.getItem can return for a key: null ("missing"), the
\* empty string, a string that is no JSON text ("garbage"), or the JSON text
\* of null, of a number, of an object, or of an array of records.
StoredMissing == [jt |-> "missing", items |-> <<>>]
StoredText(jt) == [jt |-> jt, items |-> <<>>]
NonListTexts == {"empty", "garbage", "null", "number", "object"}

\* JSON.stringify of one record: a NaN number is written as null; a property
\* whose value is undefined is left out, and reads back as undefined.
JSON_stringifyValue(v) == IF v = "NaN" THEN "null" ELSE v

JSON_stringifyAurora(list) ==
  [jt |-> "array",
   items |-> [k \in 1..Len(list) |->
      [id |-> list[k].id, media_type |-> list[k].media_type,
       vote_average |-> JSON_stringifyValue(list[k].vote_average)]]]

JSON_stringifyMain(list) ==
  [jt |-> "array",
   items |-> [k \in 1..Len(list) |->
      [id |-> list[k].id, type |-> list[k].type,
       vote_average |-> JSON_stringifyValue(list[k].vote_average)]]]

\* JSON.parse of a stored string: throws SyntaxError on the empty string and
\* on garbage, and returns the value the text denotes otherwise.
JSON_parse(stored) ==
  IF stored.jt \in {"empty", "garbage"}
  THEN [threw |-> TRUE, val |-> JsOther("undefined")]
  ELSE IF stored.jt = "array"
  THEN [threw |-> FALSE, val |-> JsArray(stored.items)]
  ELSE [threw |-> FALSE, val |-> JsOther(stored.jt)]

\* A string is falsy exactly when it is empty; null is falsy.
Falsy(stored) == stored.jt \in {"missing", "empty"}

\* Array.prototype.findIndex: the 0-based index of the first element that
\* satisfies Test, or -1.
findIndex(items, Test(_)) ==
  IF \E k \in 1..Len(items) : Test(items[k])
  THEN (CHOOSE k \in 1..Len(items) :
          Test(items[k]) /\ \A j \in 1..(k - 1) : ~Test(items[j])) - 1
  ELSE -1

\* Array.prototype.splice(idx, 1) with a 0-based index inside the array.
splice1(items, idx) ==
  [k \in 1..(Len(items) - 1) |-> IF k <= idx THEN items[k] ELSE items[k + 1]]

push(items, x) == Append(items, x)

\* ------------------------------------------------------ rating display
\* A rating is truthy unless it is 0, NaN, null or undefined.
Truthy(v) == v \notin {"0", "NaN", "null", "undefined"}

\* Number.prototype.toFixed(1) on the ratings of the catalogue.
toFixed1(v) == IF v = "0" THEN "0.0" ELSE v

\* formatRating(vote) of main.js.
formatRating(vote) == IF Truthy(vote) THEN toFixed1(vote) ELSE "N/A"

\* The rating span of a card and the rating pill of a hero slide (script.js,
\* explore.js, movie.js createMediaCard, watch-later.js): an en dash, written
\* "-" here, when the rating is falsy.
cardRating(vote_average) ==
  IF Truthy(vote_average) THEN toFixed1(vote_average) ELSE "-"

\* The rating in the sub line of movie.js buildHeader: toFixed with no
\* guard; undefined and null have no toFixed.
headerRating(vote_average) ==
  IF vote_average \in {"undefined", "null"}
  THEN [threw |-> TRUE, text |-> "none"]
  ELSE [threw |-> FALSE, text |-> toFixed1(vote_average)]

\* ------------------------------------------------- StreamVerse: main.js
WATCH_LATER_KEY_MAIN == "streamVerseWatchLater"
WATCH_LATER_KEY == "watchLaterItems"

\* getWatchLaterList: no try/catch around JSON.parse.
getWatchLaterList(ls) ==
  LET list == ls[WATCH_LATER_KEY_MAIN] IN
  IF Falsy(list) THEN [threw |-> FALSE, val |-> JsArray(<<>>)]
  ELSE JSON_parse(list)

\* saveWatchLaterList writing under the key the watch-later page reads.
saveWatchLaterList_listPageKey(ls, list) ==
  [ls EXCEPT ![WATCH_LATER_KEY] = JSON_stringifyMain(list)]
saveWatchLaterList(ls, list) ==
  [ls EXCEPT ![WATCH_LATER_KEY_MAIN] = JSON_stringifyMain(list)]

\* parseInt / parseFloat of a data-* attribute written by a template literal.
parseInt(s) == CHOOSE n \in 0..MaxItems : ToString(n) = s
parseFloat(s) == IF s = "undefined" THEN "NaN" ELSE s

\* checkWatchLaterStatus(id): list.some(item => item.id === id).
checkWatchLaterStatus(ls, id) ==
  LET list == getWatchLaterList(ls) IN
  IF list.threw \/ list.val.t # "array"
  THEN [threw |-> TRUE, val |-> FALSE]
  ELSE [threw |-> FALSE,
        val |-> \E k \in 1..Len(list.val.items) : list.val.items[k].id = id]

\* toggleWatchLater(id, itemData) of main.js: returns nothing.
main_toggleWatchLater(ls, id, itemData) ==
  LET list == getWatchLaterList(ls) IN
  IF list.threw \/ list.val.t # "array"
  THEN [threw |-> TRUE, ls |-> ls, ret |-> "undefined"]
  ELSE LET IsId(item) == item.id = id
           itemIndex == findIndex(list.val.items, IsId)
           after == IF itemIndex > -1
                    THEN splice1(list.val.items, itemIndex)
                    ELSE push(list.val.items, itemData)
       IN [threw |-> FALSE, ls |-> saveWatchLaterList(ls, after), ret |-> "undefined"]

\* The record the click handler builds from the button's data-* attributes.
datasetItem(button) ==
  [id |-> parseInt(button.id), type |-> button.type,
   vote_average |-> parseFloat(button.rating)]

\* The .btn-add-list button as createHeroSlide and createMediaCard write it.
main_addListButton(item) ==
  [id |-> ToString(item.id), type |-> item.media_type,
   rating |-> item.vote_average,
   icon |-> "bookmark_border", added |-> FALSE,
   ariaLabel |-> "Add to Watch Later"]

\* updateWatchLaterButtonUI with classList.toggle in place of add / remove.
updateWatchLaterButtonUI_togglesClass(ls, button, id) ==
  LET status == checkWatchLaterStatus(ls, id) IN
  IF status.threw THEN [threw |-> TRUE, button |-> button]
  ELSE IF status.val
  THEN [threw |-> FALSE,
        button |-> [button EXCEPT !.icon = "bookmark", !.added = ~button.added,
                                  !.ariaLabel = "Remove from Watch Later"]]
  ELSE [threw |-> FALSE,
        button |-> [button EXCEPT !.icon = "bookmark_border", !.added = ~button.added,
                                  !.ariaLabel = "Add to Watch Later"]]

\* updateWatchLaterButtonUI(button, id): icon, class and label from the status.
updateWatchLaterButtonUI(ls, button, id) ==
  LET status == checkWatchLaterStatus(ls, id) IN
  IF status.threw THEN [threw |-> TRUE, button |-> button]
  ELSE IF status.val
  THEN [threw |-> FALSE,
        button |-> [button EXCEPT !.icon = "bookmark", !.added = TRUE,
                                  !.ariaLabel = "Remove from Watch Later"]]
  ELSE [threw |-> FALSE,
        button |-> [button EXCEPT !.icon = "bookmark_border", !.added = FALSE,
                                  !.ariaLabel = "Add to Watch Later"]]

\* updateAllWatchLaterButtons: every .btn-add-list whose parsed id is truthy;
\* the first failing status check ends the loop with an error.
updateAllWatchLaterButtons(ls, btns) ==
  LET Checked(k) == parseInt(btns[k].id) # 0
      upd(k) == updateWatchLaterButtonUI(ls, btns[k], parseInt(btns[k].id))
  IN IF \E k \in 1..Len(btns) : Checked(k) /\ upd(k).threw
     THEN LET f == CHOOSE k \in 1..Len(btns) :
                     /\ Checked(k) /\ upd(k).threw
                     /\ \A j \in 1..(k - 1) : ~(Checked(j) /\ upd(j).threw)
          IN [threw |-> TRUE,
              buttons |-> [k \in 1..Len(btns) |->
                 IF k < f /\ Checked(k) THEN upd(k).button ELSE btns[k]]]
     ELSE [threw |-> FALSE,
           buttons |-> [k \in 1..Len(btns) |->
              IF Checked(k) THEN upd(k).button ELSE btns[k]]]

\* ------------------------------------------------------ Aurora: the store
\* getWatchLater of script.js (and, word for word, of movie.js and tv.js):
\* a falsy stored value reads as [], a JSON.parse error is caught.
getWatchLater(ls) ==
  LET stored == ls[WATCH_LATER_KEY] IN
  IF Falsy(stored) THEN JsArray(<<>>)
  ELSE IF JSON_parse(stored).threw THEN JsArray(<<>>)
  ELSE JSON_parse(stored).val

movie_getWatchLater(ls) ==
  LET stored == ls[WATCH_LATER_KEY] IN
  IF Falsy(stored) THEN JsArray(<<>>)
  ELSE IF JSON_parse(stored).threw THEN JsArray(<<>>)
  ELSE JSON_parse(stored).val

\* getWatchLater of explore.js: JSON.parse(getItem(KEY) || '[]') in a try.
explore_getWatchLater(ls) ==
  LET text == IF Falsy(ls[WATCH_LATER_KEY]) THEN JSON_stringifyAurora(<<>>)
              ELSE ls[WATCH_LATER_KEY]
  IN IF JSON_parse(text).threw THEN JsArray(<<>>) ELSE JSON_parse(text).val

\* getWatchLater and saveWatchLater of watch-later.js.
wl_getWatchLater(ls) ==
  LET text == IF Falsy(ls[WATCH_LATER_KEY]) THEN JSON_stringifyAurora(<<>>)
              ELSE ls[WATCH_LATER_KEY]
  IN IF JSON_parse(text).threw THEN JsArray(<<>>) ELSE JSON_parse(text).val

wl_saveWatchLater(ls, list) ==
  [ls EXCEPT ![WATCH_LATER_KEY] = JSON_stringifyAurora(list)]

\* toggleWatchLater with a match that never succeeds: every call appends.
toggleWatchLater_neverMatches(ls, item) ==
  LET list == getWatchLater(ls) IN
  IF list.t # "array" THEN [threw |-> TRUE, ls |-> ls, ret |-> "none"]
  ELSE [threw |-> FALSE,
        ls |-> [ls EXCEPT ![WATCH_LATER_KEY] = JSON_stringifyAurora(push(list.items, item))],
        ret |-> "true"]

\* toggleWatchLater(item) of script.js.  A value that is not an array has no
\* findIndex: the call ends in a TypeError before anything is written.
toggleWatchLater(ls, item) ==
  LET list == getWatchLater(ls) IN
  IF list.t # "array" THEN [threw |-> TRUE, ls |-> ls, ret |-> "none"]
  ELSE LET Same(i) == i.id = item.id /\ i.media_type = item.media_type
           existingIndex == findIndex(list.items, Same)
           after == IF existingIndex > -1
                    THEN splice1(list.items, existingIndex)
                    ELSE push(list.items, item)
       IN [threw |-> FALSE,
           ls |-> [ls EXCEPT ![WATCH_LATER_KEY] = JSON_stringifyAurora(after)],
           ret |-> IF existingIndex = -1 THEN "true" ELSE "false"]

explore_toggleWatchLater(ls, item) ==
  LET list == explore_getWatchLater(ls) IN
  IF list.t # "array" THEN [threw |-> TRUE, ls |-> ls, ret |-> "none"]
  ELSE LET Same(i) == i.id = item.id /\ i.media_type = item.media_type
           idx == findIndex(list.items, Same)
           after == IF idx > -1 THEN splice1(list.items, idx)
                    ELSE push(list.items, item)
       IN [threw |-> FALSE,
           ls |-> [ls EXCEPT ![WATCH_LATER_KEY] = JSON_stringifyAurora(after)],
           ret |-> IF idx = -1 THEN "true" ELSE "false"]

\* A toggle that takes out every record of the item's id, whatever its kind.
movie_toggleWatchLater_removesAllOfId(ls, item) ==
  LET list == movie_getWatchLater(ls) IN
  IF list.t # "array" THEN [threw |-> TRUE, ls |-> ls, ret |-> "none"]
  ELSE LET Same(i) == i.id = item.id /\ i.media_type = item.media_type
           idx == findIndex(list.items, Same)
           after == IF idx > -1
                    THEN SelectSeq(list.items, LAMBDA i : i.id # item.id)
                    ELSE push(list.items, item)
       IN [threw |-> FALSE,
           ls |-> [ls EXCEPT ![WATCH_LATER_KEY] = JSON_stringifyAurora(after)],
           ret |-> IF idx = -1 THEN "true" ELSE "false"]

\* toggleWatchLater(item) of movie.js.
movie_toggleWatchLater(ls, item) ==
  LET list == movie_getWatchLater(ls) IN
  IF list.t # "array" THEN [threw |-> TRUE, ls |-> ls, ret |-> "none"]
  ELSE LET Same(i) == i.id = item.id /\ i.media_type = item.media_type
           idx == findIndex(list.items, Same)
           after == IF idx > -1 THEN splice1(list.items, idx)
                    ELSE push(list.items, item)
       IN [threw |-> FALSE,
           ls |-> [ls EXCEPT ![WATCH_LATER_KEY] = JSON_stringifyAurora(after)],
           ret |-> IF idx = -1 THEN "true" ELSE "false"]

\* The pre-check of a save control: getWatchLater().some(i => i.id === id &&
\* i.media_type === media_type); a non-array has no some.
savedCheck(list, id, media_type) ==
  IF list.t # "array" THEN [threw |-> TRUE, val |-> FALSE]
  ELSE [threw |-> FALSE,
        val |-> \E k \in 1..Len(list.items) :
                  list.items[k].id = id /\ list.items[k].media_type = media_type]

\* The record a save control hands to toggleWatchLater.
savedItem(item, media_type) ==
  [id |-> item.id, media_type |-> media_type, vote_average |-> item.vote_average]

\* The bookmark star of a card (script.js createMediaCard, explore.js
\* createCard): gold when saved.
bookmark(item, saved) ==
  [id |-> item.id, media_type |-> item.media_type, vote_average |-> item.vote_average,
   el |-> "bookmark", shown |-> IF saved THEN "#ffd700" ELSE "#fff"]

\* The text button of a hero slide or of a detail header.
addBtn(item, media_type, saved) ==
  [id |-> item.id, media_type |-> media_type, vote_average |-> item.vote_average,
   el |-> "addBtn", shown |-> IF saved THEN "Added" ELSE "Add to List"]

\* A click handler that writes the saved look whatever toggle returned.
shownAfter_ignoresFlag(control, added) ==
  IF control.el = "bookmark"
  THEN [control EXCEPT !.shown = "#ffd700"]
  ELSE [control EXCEPT !.shown = "Added"]
\* What a click writes on the clicked control from toggle's returned flag.
shownAfter(control, added) ==
  IF control.el = "bookmark"
  THEN [control EXCEPT !.shown = IF added THEN "#ffd700" ELSE "#fff"]
  ELSE [control EXCEPT !.shown = IF added THEN "Added" ELSE "Add to List"]

\* createMediaCard over a row of script.js; the pre-check of a card can throw.
createMediaCards(ls, items) ==
  IF \E k \in 1..Len(items) :
       savedCheck(getWatchLater(ls), items[k].id, items[k].media_type).threw
  THEN [threw |-> TRUE, controls |-> <<>>]
  ELSE [threw |-> FALSE,
        controls |-> [k \in 1..Len(items) |->
           bookmark(items[k],
              savedCheck(getWatchLater(ls), items[k].id, items[k].media_type).val)]]

\* createCard over the results of explore.js.
explore_createCards(ls, items) ==
  IF \E k \in 1..Len(items) :
       savedCheck(explore_getWatchLater(ls), items[k].id, items[k].media_type).threw
  THEN [threw |-> TRUE, controls |-> <<>>]
  ELSE [threw |-> FALSE,
        controls |-> [k \in 1..Len(items) |->
           bookmark(items[k],
              savedCheck(explore_getWatchLater(ls), items[k].id, items[k].media_type).val)]]

\* ------------------------------------------- Aurora: the watch-later page

\* renderList(filterType): what it leaves in the subtext and in the grid.
\* A stored null fails before anything is written; a stored number or object
\* fails in list.filter, or (filter 'all') after the subtext and the cleared
\* container were written.
\* renderList showing every stored record whatever the filter is.
renderList_showsAll(ls, filterType, subtext, cards) ==
  LET list == wl_getWatchLater(ls)
  IN IF list.t = "array"
     THEN [threw |-> FALSE,
           subtext |-> ToString(Len(list.items)) \o " item"
                         \o (IF Len(list.items) # 1 THEN "s" ELSE "") \o " saved",
           cards |-> list.items]
     ELSE [threw |-> TRUE, subtext |-> subtext, cards |-> cards]
renderList(ls, filterType, subtext, cards) ==
  LET list == wl_getWatchLater(ls)
      OfType(i) == i.media_type = filterType
  IN IF list.t = "array"
     THEN [threw |-> FALSE,
           subtext |-> ToString(Len(list.items)) \o " item"
                         \o (IF Len(list.items) # 1 THEN "s" ELSE "") \o " saved",
           cards |-> IF filterType = "all" THEN list.items
                     ELSE SelectSeq(list.items, OfType)]
     ELSE IF list.t = "null" \/ filterType # "all"
     THEN [threw |-> TRUE, subtext |-> subtext, cards |-> cards]
     ELSE [threw |-> TRUE, subtext |-> "undefined items saved", cards |-> <<>>]

\* The remove handler matching on the id alone.
removeItem_byIdOnly(ls, item) ==
  LET list == wl_getWatchLater(ls) IN
  IF list.t # "array" THEN [threw |-> TRUE, found |-> FALSE, ls |-> ls]
  ELSE LET Same(i) == i.id = item.id
           idx == findIndex(list.items, Same)
       IN IF idx > -1
          THEN [threw |-> FALSE, found |-> TRUE,
                ls |-> wl_saveWatchLater(ls, splice1(list.items, idx))]
          ELSE [threw |-> FALSE, found |-> FALSE, ls |-> ls]

\* The click handler of a card's remove button, for the item the card was
\* built from: [found, ls].
removeItem(ls, item) ==
  LET list == wl_getWatchLater(ls) IN
  IF list.t # "array" THEN [threw |-> TRUE, found |-> FALSE, ls |-> ls]
  ELSE LET Same(i) == i.id = item.id /\ i.media_type = item.media_type
           idx == findIndex(list.items, Same)
       IN IF idx > -1
          THEN [threw |-> FALSE, found |-> TRUE,
                ls |-> wl_saveWatchLater(ls, splice1(list.items, idx))]
          ELSE [threw |-> FALSE, found |-> FALSE, ls |-> ls]

\* ------------------------------------------------------------------ state
VARIABLES
  site,          \* "StreamVerse" or "Aurora"
  localStorage,  \* key -> stored value
  page,          \* the page the tab shows
  buttons,       \* StreamVerse: the .btn-add-list buttons of the page, in DOM order
  controls,      \* Aurora: the save controls of the page, in DOM order
  cards,         \* Aurora watch-later page: the items of the rendered cards
  currentFilter, \* Aurora watch-later page: the active type filter
  subtext,       \* Aurora watch-later page: the text of #subtext
  last,          \* what the last handler run did: its name, result and error
  tabs,          \* two tabs on one origin: where each is in its toggle call
  start,         \* the stored values when the two tabs were opened
  notices,       \* the content areas of the page that show an error message
  slides,          \* main.js hero: per .hero-slide, whether it has class 'active'
  dots,            \* main.js hero: per .carousel-dot, whether it has class 'active'
  currentHeroIndex,\* main.js hero: the global of that name
  heroInterval,    \* main.js hero: the interval id held in the global
  scheduled,       \* main.js hero: ids of the intervals the browser will fire
  nextTimerId,     \* the id the next setInterval call returns
  overlayOpen,     \* main.js player: #overlayPlayer has class 'open'
  playerIframe,    \* main.js player: src of #playerIframe
  playerFetches,   \* main.js player: fetchAndShow... calls waiting for a response
  activePill,      \* tv.js: season number of the .season-pill with class 'active'
  episodeGrid,     \* tv.js: what #episode-grid shows
  episodeFetches,  \* tv.js: fetchAndPopulateEpisodes calls waiting for a response
  searchQuery,     \* explore.js: trimmed value of #searchQuery
  activeType,      \* explore.js: data-type of the .filter-btn with class 'active'
  searchTimeout,   \* explore.js: whether the debounce timer is pending
  searchRequests,  \* explore.js: handleSearch calls waiting for a response
  resultsArea      \* explore.js: what #resultsArea shows

HeroDom == <<slides, dots, currentHeroIndex, heroInterval, scheduled, nextTimerId>>
PlayerDom == <<overlayOpen, playerIframe, playerFetches>>
TvDom == <<activePill, episodeGrid, episodeFetches>>
SearchDom == <<searchQuery, activeType, searchTimeout, searchRequests, resultsArea>>
Widgets == <<HeroDom, PlayerDom, TvDom, SearchDom>>
Pages == <<site, localStorage, page, buttons, controls, cards, currentFilter, subtext,
           last, tabs, start, notices>>

PagesButLast == <<site, localStorage, page, buttons, controls, cards, currentFilter,
                  subtext, tabs, start, notices>>

vars == <<site, localStorage, page, buttons, controls, cards, currentFilter, subtext,
          last, tabs, start, notices, Widgets>>

Observed(op, ret, threw) == [op |-> op, ret |-> ret, threw |-> threw]

\* The stored value is a list: nothing stored yet, or the text of an array.
IsList(stored) == stored.jt \in {"missing", "array"}

\* A tab that is not inside a toggleWatchLater call.
TabIdle == [pc |-> "idle", item |-> <<>>, list |-> <<>>]
Tabs == {1, 2}

AuroraPages == {"index", "explore", "movie", "watch-later"}
Filters == {"all", "movie", "tv"}

\* The widgets as the scripts leave them when they have been evaluated and
\* no content has arrived: main.js lines 45-46 (currentHeroIndex = 0,
\* heroInterval undefined, written 0), a closed overlay, an empty season
\* bar and grid, and the explore page's prompt.
HeroIdle ==
  /\ slides = <<>>
  /\ dots = <<>>
  /\ currentHeroIndex = 0
  /\ heroInterval = 0
  /\ scheduled = {}
  /\ nextTimerId = 1

PlayerIdle ==
  /\ overlayOpen = FALSE
  /\ playerIframe = ""
  /\ playerFetches = <<>>

TvIdle ==
  /\ activePill = -1
  /\ episodeGrid = [t |-> "empty", season |-> -1]
  /\ episodeFetches = <<>>

SearchIdle ==
  /\ searchQuery = ""
  /\ activeType = "all"
  /\ searchTimeout = FALSE
  /\ searchRequests = <<>>
  /\ resultsArea = [t |-> "prompt", items |-> <<>>]

WidgetsIdle == HeroIdle /\ PlayerIdle /\ TvIdle /\ SearchIdle

Init ==
  /\ WidgetsIdle
  /\ site \in {"StreamVerse", "Aurora"}
  /\ localStorage = [k \in {WATCH_LATER_KEY_MAIN, WATCH_LATER_KEY} |-> StoredMissing]
  /\ page = "index"
  /\ buttons = <<>>
  /\ controls = <<>>
  /\ cards = <<>>
  /\ currentFilter = "all"
  /\ subtext = ""
  /\ last = Observed("load", "none", FALSE)
  /\ tabs = [t \in Tabs |-> TabIdle]
  /\ notices = {}
  /\ start = localStorage

AuroraDom == <<controls, cards, currentFilter, subtext>>

\* ------------------------------------------------- StreamVerse handlers
\* initIndexPage, first part: the trending fetch resolved and the hero
\* carousel is filled.  No button is refreshed here.
PopulateHeroCarousel ==
  /\ site = "StreamVerse" /\ page = "index" /\ buttons = <<>>
  /\ \E items \in ApiResults(MaxControls) :
       buttons' = [k \in 1..Len(items) |-> main_addListButton(items[k])]
  /\ last' = Observed("populateHeroCarousel", "none", FALSE)
  /\ UNCHANGED <<Widgets, site, notices, tabs, start, localStorage, page, AuroraDom>>

\* populateMediaRow after its fetch resolved with results: the cards are
\* appended, then every button on the page is refreshed.
PopulateMediaRow ==
  /\ site = "StreamVerse" /\ page = "index"
  /\ \E items \in ApiResults(MaxControls) :
       /\ Len(buttons) + Len(items) <= MaxControls
       /\ LET added == buttons \o [k \in 1..Len(items) |-> main_addListButton(items[k])]
              r == updateAllWatchLaterButtons(localStorage, added)
          IN /\ buttons' = r.buttons
             /\ last' = Observed("populateMediaRow", "none", r.threw)
  /\ UNCHANGED <<Widgets, site, notices, tabs, start, localStorage, page, AuroraDom>>

\* The delegated click handler of initGlobalListeners on the k-th
\* .btn-add-list: toggle, then the clicked button alone is refreshed.
ClickAddListAt(k) ==
  /\ site = "StreamVerse"
  /\ k \in 1..Len(buttons)
  /\ LET addListButton == buttons[k]
         itemData == datasetItem(addListButton)
         t == main_toggleWatchLater(localStorage, itemData.id, itemData)
         u == updateWatchLaterButtonUI(t.ls, addListButton, itemData.id)
     IN /\ localStorage' = t.ls
        /\ buttons' = IF t.threw THEN buttons ELSE [buttons EXCEPT ![k] = u.button]
        /\ last' = Observed("click", t.ret, t.threw \/ u.threw)
  /\ UNCHANGED <<Widgets, site, notices, tabs, start, page, AuroraDom>>

ClickAddList == \E k \in 1..Len(buttons) : ClickAddListAt(k)

\* The StreamVerse tab is reloaded: the DOM is rebuilt from nothing.
Reload ==
  /\ site = "StreamVerse"
  /\ buttons' = <<>>
  /\ notices' = {}
  /\ last' = Observed("load", "none", FALSE)
  /\ UNCHANGED <<Widgets, site, tabs, start, localStorage, page, AuroraDom>>

\* ------------------------------------------------------ Aurora handlers
\* The tab goes to a page of the Aurora site.  The DOM starts empty; the
\* watch-later page renders its list on DOMContentLoaded.
Navigate ==
  /\ site = "Aurora"
  /\ \E p \in AuroraPages :
       /\ page' = p
       /\ controls' = <<>>
       /\ currentFilter' = "all"
       /\ IF p = "watch-later"
          THEN LET r == renderList(localStorage, "all", "", <<>>)
               IN /\ cards' = r.cards
                  /\ subtext' = r.subtext
                  /\ last' = Observed("renderList", "none", r.threw)
          ELSE /\ cards' = <<>>
               /\ subtext' = ""
               /\ last' = Observed("load", "none", FALSE)
  /\ notices' = {}
  /\ UNCHANGED <<Widgets, site, tabs, start, localStorage, buttons>>

\* script.js buildHeroCarousel: one 'Add to List' button per slide, written
\* without looking at the store.
BuildHeroCarousel ==
  /\ site = "Aurora" /\ page = "index" /\ controls = <<>>
  /\ \E items \in ApiResults(MaxControls) :
       controls' = [k \in 1..Len(items) |-> addBtn(items[k], items[k].media_type, FALSE)]
  /\ last' = Observed("buildHeroCarousel", "none", FALSE)
  /\ UNCHANGED <<Widgets, site, notices, tabs, start, localStorage, page, buttons, cards, currentFilter, subtext>>

\* script.js populateRow: a row of media cards, each star pre-checked.
PopulateRow ==
  /\ site = "Aurora" /\ page = "index"
  /\ \E items \in ApiResults(MaxControls) :
       /\ Len(controls) + Len(items) <= MaxControls
       /\ LET r == createMediaCards(localStorage, items)
          IN /\ controls' = controls \o r.controls
             /\ last' = Observed("populateRow", "none", r.threw)
  /\ UNCHANGED <<Widgets, site, notices, tabs, start, localStorage, page, buttons, cards, currentFilter, subtext>>

\* explore.js renderResults: the result area is replaced by the new cards.
RenderResults ==
  /\ site = "Aurora" /\ page = "explore"
  /\ \E items \in ApiResults(MaxControls) :
       LET r == explore_createCards(localStorage, items)
       IN /\ controls' = r.controls
          /\ last' = Observed("renderResults", "none", r.threw)
  /\ UNCHANGED <<Widgets, site, notices, tabs, start, localStorage, page, buttons, cards, currentFilter, subtext>>

\* movie.js buildHeader: the sub line with the rating, then the header's
\* button, pre-checked as a movie.  An error in either ends buildHeader
\* before the button exists; last.ret is the rating text the sub line got.
BuildHeader ==
  /\ site = "Aurora" /\ page = "movie" /\ controls = <<>>
  /\ \E id \in Ids :
       LET movie == ApiItem(id, "movie")
           rating == headerRating(movie.vote_average)
           saved == savedCheck(movie_getWatchLater(localStorage), movie.id, "movie")
       IN /\ controls' = IF rating.threw \/ saved.threw THEN <<>>
                         ELSE <<addBtn(movie, "movie", saved.val)>>
          /\ last' = Observed("buildHeader", rating.text, rating.threw \/ saved.threw)
  /\ UNCHANGED <<Widgets, site, notices, tabs, start, localStorage, page, buttons, cards, currentFilter, subtext>>

\* The toggleWatchLater the scripts of a page define.
pageToggle(p, ls, item) ==
  IF p = "explore" THEN explore_toggleWatchLater(ls, item)
  ELSE IF p = "movie" THEN movie_toggleWatchLater(ls, item)
  ELSE toggleWatchLater(ls, item)

\* The click handler of the k-th save control: toggle, then the clicked
\* control is rewritten from the returned flag.
ClickSaveAt(k) ==
  /\ site = "Aurora" /\ page # "watch-later"
  /\ k \in 1..Len(controls)
  /\ LET c == controls[k]
         t == pageToggle(page, localStorage, savedItem(c, c.media_type))
     IN /\ localStorage' = t.ls
        /\ controls' = IF t.threw THEN controls
                       ELSE [controls EXCEPT ![k] = shownAfter(c, t.ret = "true")]
        /\ last' = Observed("click", t.ret, t.threw)
  /\ UNCHANGED <<Widgets, site, notices, tabs, start, page, buttons, cards, currentFilter, subtext>>

ClickSave == \E k \in 1..Len(controls) : ClickSaveAt(k)

\* watch-later.js: a click on a filter button.
FilterClick ==
  /\ site = "Aurora" /\ page = "watch-later"
  /\ \E type \in Filters :
       LET r == renderList(localStorage, type, subtext, cards)
       IN /\ currentFilter' = type
          /\ cards' = r.cards
          /\ subtext' = r.subtext
          /\ last' = Observed("renderList", "none", r.threw)
  /\ UNCHANGED <<Widgets, site, notices, tabs, start, localStorage, page, buttons, controls>>

\* watch-later.js: a click on the remove button of the k-th rendered card;
\* the list is rendered again only when a record was removed.
RemoveClickAt(k) ==
  /\ site = "Aurora" /\ page = "watch-later"
  /\ k \in 1..Len(cards)
  /\ LET r == removeItem(localStorage, cards[k])
         d == renderList(r.ls, currentFilter, subtext, cards)
     IN /\ localStorage' = r.ls
        /\ cards' = IF r.found THEN d.cards ELSE cards
        /\ subtext' = IF r.found THEN d.subtext ELSE subtext
        /\ last' = Observed("remove", IF r.found THEN "removed" ELSE "none",
                            r.threw \/ (r.found /\ d.threw))
  /\ UNCHANGED <<Widgets, site, notices, tabs, start, page, buttons, controls, currentFilter>>

RemoveClick == \E k \in 1..Len(cards) : RemoveClickAt(k)

\* ------------------------------------------------ failed content fetches
\* A content fetch ends in a network error or a non-OK response.  last.ret
\* names the content area the fetch was for.

\* main.js initIndexPage: fetchApiData returns null for the trending fetch,
\* the hero carousel is skipped and nothing is written.
InitIndexPageFetchFailed ==
  /\ site = "StreamVerse" /\ page = "index" /\ buttons = <<>>
  /\ last' = Observed("fetchFailed", "hero", FALSE)
  /\ UNCHANGED <<Widgets, site, notices, tabs, start, localStorage, page, buttons, AuroraDom>>

\* main.js populateMediaRow: fetchApiData returns null, the row's container
\* gets "Could not load content." and no button is refreshed.
PopulateMediaRowFetchFailed ==
  /\ site = "StreamVerse" /\ page = "index"
  /\ notices' = notices \cup {"row"}
  /\ last' = Observed("fetchFailed", "row", FALSE)
  /\ UNCHANGED <<Widgets, site, tabs, start, localStorage, page, buttons, AuroraDom>>

\* script.js init: fetchFromTMDB throws, the catch logs to the console and
\* the rest of the load sequence is skipped.
InitFetchFailed ==
  /\ site = "Aurora" /\ page = "index"
  /\ last' = Observed("fetchFailed", "rows", FALSE)
  /\ UNCHANGED <<Widgets, site, notices, tabs, start, localStorage, page, buttons, AuroraDom>>

\* movie.js loadPage: fetchFromTMDB throws, the catch logs to the console.
LoadPageFetchFailed ==
  /\ site = "Aurora" /\ page = "movie"
  /\ last' = Observed("fetchFailed", "movie-details", FALSE)
  /\ UNCHANGED <<Widgets, site, notices, tabs, start, localStorage, page, buttons, AuroraDom>>

\* explore.js handleSearch: fetchFromTMDB throws, the catch logs to the
\* console and the result area keeps what it showed.
HandleSearchFetchFailed ==
  /\ site = "Aurora" /\ page = "explore"
  /\ last' = Observed("fetchFailed", "resultsArea", FALSE)
  /\ UNCHANGED <<Widgets, site, notices, tabs, start, localStorage, page, buttons, AuroraDom>>

\* The visual state of a control: TRUE for the saved look.
ButtonShowsAdded(b) == b.added
ControlShowsAdded(c) == c.shown \in {"#ffd700", "Added"}

\* ------------------------------------------------- failed storage writes
\* localStorage.setItem throws (QuotaExceededError, storage disabled) and
\* writes nothing.  What a click handler has done by then, and what it
\* still does, follows the order of its statements.

\* main.js click delegation: toggleWatchLater got as far as
\* saveWatchLaterList, whose setItem throws; the error leaves toggleWatchLater
\* and the handler, so updateWatchLaterButtonUI on the next line never runs.
ClickAddListWriteFailedAt(k) ==
  /\ site = "StreamVerse"
  /\ k \in 1..Len(buttons)
  /\ LET list == getWatchLaterList(localStorage)
     IN ~list.threw /\ list.val.t = "array"
  /\ localStorage' = localStorage
  /\ buttons' = buttons
  /\ last' = Observed("click", "QuotaExceededError", TRUE)
  /\ UNCHANGED <<Widgets, site, notices, tabs, start, page, AuroraDom>>

ClickAddListWriteFailed == \E k \in 1..Len(buttons) : ClickAddListWriteFailedAt(k)

\* A handler that paints the clicked control before it calls toggle.
ClickSaveWriteFailedAt_paintsFirst(k) ==
  /\ site = "Aurora" /\ page # "watch-later"
  /\ k \in 1..Len(controls)
  /\ (IF page = "explore" THEN explore_getWatchLater(localStorage)
      ELSE IF page = "movie" THEN movie_getWatchLater(localStorage)
      ELSE getWatchLater(localStorage)).t = "array"
  /\ localStorage' = localStorage
  /\ controls' = [controls EXCEPT
        ![k] = shownAfter(controls[k], ~ControlShowsAdded(controls[k]))]
  /\ last' = Observed("click", "QuotaExceededError", TRUE)
  /\ UNCHANGED <<Widgets, site, notices, tabs, start, page, buttons, cards, currentFilter, subtext>>

\* The click handler of an Aurora save control: the page's toggleWatchLater
\* got as far as setItem, which throws; the assignment of the returned flag
\* to the control never runs.
ClickSaveWriteFailedAt(k) ==
  /\ site = "Aurora" /\ page # "watch-later"
  /\ k \in 1..Len(controls)
  /\ (IF page = "explore" THEN explore_getWatchLater(localStorage)
      ELSE IF page = "movie" THEN movie_getWatchLater(localStorage)
      ELSE getWatchLater(localStorage)).t = "array"
  /\ localStorage' = localStorage
  /\ controls' = controls
  /\ last' = Observed("click", "QuotaExceededError", TRUE)
  /\ UNCHANGED <<Widgets, site, notices, tabs, start, page, buttons, cards, currentFilter, subtext>>

ClickSaveWriteFailed == \E k \in 1..Len(controls) : ClickSaveWriteFailedAt(k)

\* ------------------------------------------------------------ environment
\* The stored string is replaced from outside the page scripts (corruption,
\* manual tampering, another program writing the key).
StorageTampered ==
  /\ \E jt \in NonListTexts :
       localStorage' = [localStorage EXCEPT
          ![IF site = "StreamVerse" THEN WATCH_LATER_KEY_MAIN ELSE WATCH_LATER_KEY]
             = StoredText(jt)]
  /\ last' = Observed("tamper", "none", FALSE)
  /\ UNCHANGED <<Widgets, site, notices, tabs, start, page, buttons, AuroraDom>>

Next ==
  \/ PopulateHeroCarousel
  \/ PopulateMediaRow
  \/ ClickAddList
  \/ Reload
  \/ Navigate
  \/ BuildHeroCarousel
  \/ PopulateRow
  \/ RenderResults
  \/ BuildHeader
  \/ ClickSave
  \/ FilterClick
  \/ RemoveClick
  \/ StorageTampered
  \/ InitIndexPageFetchFailed
  \/ PopulateMediaRowFetchFailed
  \/ InitFetchFailed
  \/ LoadPageFetchFailed
  \/ HandleSearchFetchFailed
  \/ ClickAddListWriteFailed
  \/ ClickSaveWriteFailed

Spec == Init /\ [][Next]_vars

\* ------------------------------------------- two tabs sharing the storage
\* Two tabs of the same site run toggleWatchLater, each in its own event
\* loop; localStorage is shared, so the statements of the two calls
\* interleave: getItem + JSON.parse, the change of the local array, setItem.

\* The record a tab's click hands to toggleWatchLater for a catalogue title.
tabItem(s, n) ==
  IF s = "StreamVerse" THEN datasetItem(main_addListButton(Catalog[n]))
  ELSE savedItem(Catalog[n], Catalog[n].media_type)

\* The lists a session can have stored when the tabs open: titles in
\* catalogue order, no key twice (main.js: no id twice).
StartLists(s) ==
  { SelectSeq([n \in 1..MaxItems |-> tabItem(s, n)], LAMBDA i : i \in S) :
      S \in { T \in SUBSET { tabItem(s, n) : n \in 1..MaxItems } :
                \A a, b \in T : a.id = b.id => (s = "Aurora" \/ a = b) } }

TabsInit ==
  /\ WidgetsIdle
  /\ site \in {"StreamVerse", "Aurora"}
  /\ \E list \in StartLists(site) :
       localStorage =
         [k \in {WATCH_LATER_KEY_MAIN, WATCH_LATER_KEY} |->
            IF site = "StreamVerse" /\ k = WATCH_LATER_KEY_MAIN
            THEN JSON_stringifyMain(list)
            ELSE IF site = "Aurora" /\ k = WATCH_LATER_KEY
            THEN JSON_stringifyAurora(list)
            ELSE StoredMissing]
  /\ start = localStorage
  /\ tabs = [t \in Tabs |-> TabIdle]
  /\ notices = {}
  /\ page = "explore"
  /\ buttons = <<>>
  /\ controls = <<>>
  /\ cards = <<>>
  /\ currentFilter = "all"
  /\ subtext = ""
  /\ last = Observed("load", "none", FALSE)

\* First statement of toggleWatchLater in tab t: const list = getWatchLater().
TabLoad(t) ==
  /\ tabs[t].pc = "idle"
  /\ \E n \in 1..MaxItems :
       tabs' = [tabs EXCEPT ![t] =
          [pc |-> "loaded", item |-> tabItem(site, n),
           list |-> IF site = "StreamVerse"
                    THEN getWatchLaterList(localStorage).val.items
                    ELSE explore_getWatchLater(localStorage).items]]
  /\ last' = Observed("tabLoad", "none", FALSE)
  /\ UNCHANGED <<Widgets, site, notices, localStorage, page, buttons, AuroraDom, start>>

\* A toggle that pushes without looking for the record.
mutated_alwaysPushes(s, list, item) == push(list, item)
\* What findIndex, splice and push leave in the tab's local array.
mutated(s, list, item) ==
  LET SameMain(i) == i.id = item.id
      SameAurora(i) == i.id = item.id /\ i.media_type = item.media_type
      idx == IF s = "StreamVerse" THEN findIndex(list, SameMain)
             ELSE findIndex(list, SameAurora)
  IN IF idx > -1 THEN splice1(list, idx) ELSE push(list, item)

\* Middle of toggleWatchLater in tab t: the local array is changed.
TabMutate(t) ==
  /\ tabs[t].pc = "loaded"
  /\ tabs' = [tabs EXCEPT ![t].pc = "mutated",
                          ![t].list = mutated(site, tabs[t].list, tabs[t].item)]
  /\ last' = Observed("tabMutate", "none", FALSE)
  /\ UNCHANGED <<Widgets, site, notices, localStorage, page, buttons, AuroraDom, start>>

\* Last statement of toggleWatchLater in tab t: setItem(KEY, stringify(list)).
TabSave(t) ==
  /\ tabs[t].pc = "mutated"
  /\ localStorage' =
       IF site = "StreamVerse" THEN saveWatchLaterList(localStorage, tabs[t].list)
       ELSE [localStorage EXCEPT ![WATCH_LATER_KEY] = JSON_stringifyAurora(tabs[t].list)]
  /\ tabs' = [tabs EXCEPT ![t].pc = "done"]
  /\ last' = Observed("tabSave", "none", FALSE)
  /\ UNCHANGED <<Widgets, site, notices, page, buttons, AuroraDom, start>>

TabsNext == \E t \in Tabs : TabLoad(t) \/ TabMutate(t) \/ TabSave(t)

TabsSpec == TabsInit /\ [][TabsNext]_vars
\* --------------------------------- a rendered page and another tab's writes
\* One whole toggleWatchLater call of the site on a store.
toggled(s, ls, item) ==
  IF s = "StreamVerse" THEN main_toggleWatchLater(ls, item.id, item).ls
  ELSE explore_toggleWatchLater(ls, item).ls

\* The stored value that holds this list under the site's key.
storedList(s, list) ==
  [k \in {WATCH_LATER_KEY_MAIN, WATCH_LATER_KEY} |->
     IF s = "StreamVerse" /\ k = WATCH_LATER_KEY_MAIN THEN JSON_stringifyMain(list)
     ELSE IF s = "Aurora" /\ k = WATCH_LATER_KEY THEN JSON_stringifyAurora(list)
     ELSE StoredMissing]

\* A page that has finished rendering on some stored list: a StreamVerse
\* row after populateMediaRow, or an Aurora page after its render function.
StaleInit ==
  /\ WidgetsIdle
  /\ site \in {"StreamVerse", "Aurora"}
  /\ \E list \in StartLists(site) : localStorage = storedList(site, list)
  /\ start = localStorage
  /\ tabs = [t \in Tabs |-> TabIdle]
  /\ notices = {}
  /\ page \in IF site = "StreamVerse" THEN {"index"} ELSE AuroraPages
  /\ currentFilter = "all"
  /\ last = Observed("load", "none", FALSE)
  /\ \E items \in ApiResults(MaxControls) :
       /\ buttons =
            IF site = "StreamVerse"
            THEN updateAllWatchLaterButtons(localStorage,
                   [k \in 1..Len(items) |-> main_addListButton(items[k])]).buttons
            ELSE <<>>
       /\ controls =
            IF site = "Aurora" /\ page = "index"
            THEN createMediaCards(localStorage, items).controls
            ELSE IF site = "Aurora" /\ page = "explore"
            THEN explore_createCards(localStorage, items).controls
            ELSE IF site = "Aurora" /\ page = "movie"
            THEN IF headerRating(ApiItem(items[1].id, "movie").vote_average).threw
                 THEN <<>>
                 ELSE <<addBtn(ApiItem(items[1].id, "movie"), "movie",
                          savedCheck(movie_getWatchLater(localStorage),
                                     items[1].id, "movie").val)>>
            ELSE <<>>
  /\ cards = IF site = "Aurora" /\ page = "watch-later"
             THEN renderList(localStorage, "all", "", <<>>).cards ELSE <<>>
  /\ subtext = IF site = "Aurora" /\ page = "watch-later"
               THEN renderList(localStorage, "all", "", <<>>).subtext ELSE ""

\* Another tab of the same site runs one whole toggleWatchLater call on a
\* title of the catalogue.  Nothing on this tab's page changes: the scripts
\* have no 'storage' listener.
OtherTabToggle ==
  /\ \E n \in 1..MaxItems :
       LET item == tabItem(site, n)
           key == IF site = "StreamVerse" THEN WATCH_LATER_KEY_MAIN ELSE WATCH_LATER_KEY
           t == toggled(site, localStorage, item)
       IN /\ IsList(localStorage[key])
          /\ localStorage' = t
          /\ last' = Observed("otherTab",
                        IF Len(t[key].items) > Len(localStorage[key].items)
                        THEN "added" ELSE "removed", FALSE)
  /\ UNCHANGED <<Widgets, site, notices, tabs, start, page, buttons, AuroraDom>>

StaleNext ==
  \/ OtherTabToggle
  \/ ClickAddList
  \/ ClickSave
  \/ FilterClick
  \/ RemoveClick

StaleSpec == StaleInit /\ [][StaleNext]_vars

\* ------------------------------------------- the watch-later page by itself
\* Values 'watchLaterItems' can hold when the page is opened: any list of
\* saved catalogue titles, in any order, a title possibly more than once, or
\* a value that is no list.
OpenedOn ==
  { JSON_stringifyAurora([k \in DOMAIN f |-> savedItem(Catalog[f[k]], Catalog[f[k]].media_type)]) :
      f \in UNION { [1..m -> 1..MaxItems] : m \in 0..MaxItems } }
  \cup { StoredText(jt) : jt \in NonListTexts } \cup { StoredMissing }

\* watch-later.js DOMContentLoaded: renderList(currentFilter) with 'all'.
ListPageInit ==
  /\ WidgetsIdle
  /\ site = "Aurora"
  /\ page = "watch-later"
  /\ \E stored \in OpenedOn :
       localStorage = [k \in {WATCH_LATER_KEY_MAIN, WATCH_LATER_KEY} |->
                          IF k = WATCH_LATER_KEY THEN stored ELSE StoredMissing]
  /\ start = localStorage
  /\ tabs = [t \in Tabs |-> TabIdle]
  /\ notices = {}
  /\ buttons = <<>>
  /\ controls = <<>>
  /\ currentFilter = "all"
  /\ LET r == renderList(localStorage, "all", "", <<>>)
     IN /\ cards = r.cards
        /\ subtext = r.subtext
        /\ last = Observed("renderList", "none", r.threw)

ListPageNext ==
  \/ FilterClick
  \/ RemoveClick

ListPageSpec == ListPageInit /\ [][ListPageNext]_vars
\* ------------------------------------------------ main.js: overlay player
MaxPending == 3

\* A freshly loaded page of a site with nothing stored.
PagesIdle(s) ==
  /\ site = s
  /\ localStorage = [k \in {WATCH_LATER_KEY_MAIN, WATCH_LATER_KEY} |-> StoredMissing]
  /\ page = "index"
  /\ buttons = <<>>
  /\ controls = <<>>
  /\ cards = <<>>
  /\ currentFilter = "all"
  /\ subtext = ""
  /\ last = Observed("load", "none", FALSE)
  /\ tabs = [t \in Tabs |-> TabIdle]
  /\ notices = {}
  /\ start = localStorage

\* The embed address written to the iframe.
playerUrl(type, id) == type \o "/" \o ToString(id)

\* closePlayer: the overlay loses 'open' and the iframe is emptied.
closePlayer == [overlayOpen |-> FALSE, playerIframe |-> ""]

\* A sequence without its i-th element.
RemoveAt(seq, i) == SubSeq(seq, 1, i - 1) \o SubSeq(seq, i + 1, Len(seq))

PlayerInit ==
  /\ PagesIdle("StreamVerse")
  /\ WidgetsIdle

\* openPlayer(id, type) up to its await: the overlay opens, the iframe is
\* emptied, and fetchAndShowMoviePlayer or fetchAndShowTvPlayer waits for
\* the details of the title.
OpenPlayer ==
  /\ Len(playerFetches) < MaxPending
  /\ \E n \in 1..MaxItems :
       /\ overlayOpen' = TRUE
       /\ playerIframe' = ""
       /\ playerFetches' = Append(playerFetches,
             [id |-> Catalog[n].id, type |-> Catalog[n].media_type, stage |-> "details"])
  /\ last' = Observed("openPlayer", "none", FALSE)
  /\ UNCHANGED <<PagesButLast, HeroDom, TvDom, SearchDom>>

\* A click on the close button or on the backdrop.
ClosePlayerClick ==
  /\ overlayOpen' = closePlayer.overlayOpen
  /\ playerIframe' = closePlayer.playerIframe
  /\ last' = Observed("closePlayer", "none", FALSE)
  /\ UNCHANGED <<PagesButLast, HeroDom, TvDom, SearchDom, playerFetches>>

\* fetchApiData resolved with data and the waiting function goes on:
\* fetchAndShowMoviePlayer writes the embed address to the iframe;
\* fetchAndShowTvPlayer asks for the season next and writes the address when
\* that has arrived.  Neither looks at the overlay.
PlayerFetchResolved ==
  \E i \in 1..Len(playerFetches) :
     LET r == playerFetches[i] IN
     /\ IF r.type = "tv" /\ r.stage = "details"
        THEN /\ playerFetches' = [playerFetches EXCEPT ![i].stage = "season"]
             /\ UNCHANGED playerIframe
        ELSE /\ playerFetches' = RemoveAt(playerFetches, i)
             /\ playerIframe' = playerUrl(r.type, r.id)
     /\ last' = Observed("playerFetch", r.stage, FALSE)
     /\ UNCHANGED <<PagesButLast, HeroDom, TvDom, SearchDom, overlayOpen>>

\* fetchApiData returned null (network or HTTP error): closePlayer().
PlayerFetchFailed ==
  \E i \in 1..Len(playerFetches) :
     /\ playerFetches' = RemoveAt(playerFetches, i)
     /\ overlayOpen' = closePlayer.overlayOpen
     /\ playerIframe' = closePlayer.playerIframe
     /\ last' = Observed("playerFetch", "failed", FALSE)
     /\ UNCHANGED <<PagesButLast, HeroDom, TvDom, SearchDom>>

PlayerNext ==
  \/ OpenPlayer
  \/ ClosePlayerClick
  \/ PlayerFetchResolved
  \/ PlayerFetchFailed

PlayerSpec == PlayerInit /\ [][PlayerNext]_vars
\* ------------------------------------------------- tv.js: season episodes
MaxSeasons == 2

\* season_number of the seasons of the show, in the order of showData.seasons
\* (0 is "Specials").
Seasons == 0..MaxSeasons

EpisodesInit ==
  /\ PagesIdle("StreamVerse")
  /\ WidgetsIdle

\* initTvPage after the show details arrived: populateSeasonSelector marks the
\* first season with a number above 0, and fetchAndPopulateEpisodes is called
\* for that season: the grid shows the loading text and the request is out.
InitTvPage ==
  /\ activePill = -1
  /\ LET firstSeason == CHOOSE s \in Seasons : s > 0 /\ \A r \in Seasons : r > 0 => s <= r
     IN /\ activePill' = firstSeason
        /\ episodeGrid' = [t |-> "loading", season |-> -1]
        /\ episodeFetches' = Append(episodeFetches, firstSeason)
  /\ last' = Observed("initTvPage", "none", FALSE)
  /\ UNCHANGED <<PagesButLast, HeroDom, PlayerDom, SearchDom>>

\* The click listener of a season pill: the pill becomes the only active one
\* and fetchAndPopulateEpisodes runs up to its await.
SeasonPillClick ==
  /\ activePill # -1
  /\ Len(episodeFetches) < MaxPending
  /\ \E s \in Seasons :
       /\ activePill' = s
       /\ episodeGrid' = [t |-> "loading", season |-> -1]
       /\ episodeFetches' = Append(episodeFetches, s)
  /\ last' = Observed("seasonPill", "none", FALSE)
  /\ UNCHANGED <<PagesButLast, HeroDom, PlayerDom, SearchDom>>

\* A season request resolved with episodes: fetchAndPopulateEpisodes goes on
\* after its await and fills the grid with the episodes of ITS seasonNumber.
EpisodesFetched ==
  \E i \in 1..Len(episodeFetches) :
     /\ episodeGrid' = [t |-> "episodes", season |-> episodeFetches[i]]
     /\ episodeFetches' = RemoveAt(episodeFetches, i)
     /\ last' = Observed("episodes", "shown", FALSE)
     /\ UNCHANGED <<PagesButLast, HeroDom, PlayerDom, SearchDom, activePill>>

\* A season request failed (fetchApiData returned null) or held no episode.
EpisodesFetchFailed ==
  \E i \in 1..Len(episodeFetches) :
     /\ episodeGrid' = [t |-> "none", season |-> -1]
     /\ episodeFetches' = RemoveAt(episodeFetches, i)
     /\ last' = Observed("episodes", "none", FALSE)
     /\ UNCHANGED <<PagesButLast, HeroDom, PlayerDom, SearchDom, activePill>>

EpisodesNext ==
  \/ InitTvPage
  \/ SeasonPillClick
  \/ EpisodesFetched
  \/ EpisodesFetchFailed

EpisodesSpec == EpisodesInit /\ [][EpisodesNext]_vars
\* ------------------------------------------------- explore.js: the search
\* Trimmed values of the search box.
Queries == {"", "a", "ab"}

\* /search/multi: the titles the API returns for a query; the longer query
\* matches fewer titles.
searchMulti(query) ==
  IF query = "a" THEN Catalog ELSE SelectSeq(Catalog, LAMBDA item : item.id = 1)

\* renderResults(items): a grid of cards, or "No results found.".
renderResults(items) ==
  IF Len(items) = 0 THEN [t |-> "none", items |-> <<>>]
  ELSE [t |-> "results", items |-> items]

\* handleSearch up to its await, on the box and the filter bar as they are
\* when it is called: an empty query shows the prompt and asks nothing; any
\* other query sends a request that remembers the query and the type.
handleSearch(query, typeFilter, requests, area) ==
  IF query = ""
  THEN [requests |-> requests, area |-> [t |-> "prompt", items |-> <<>>]]
  ELSE [requests |-> Append(requests, [query |-> query, typeFilter |-> typeFilter]),
        area |-> area]

\* handleSearch after its await: the results of ITS query, narrowed to ITS
\* type, are rendered.
handleSearchResolved(r) ==
  renderResults(IF r.typeFilter = "all" THEN searchMulti(r.query)
                ELSE SelectSeq(searchMulti(r.query),
                               LAMBDA i : i.media_type = r.typeFilter))

SearchInit ==
  /\ PagesIdle("Aurora")
  /\ WidgetsIdle

\* The input listener: the text changes, the pending debounce timer is
\* cleared and a new one of 600 ms is set.
SearchInput ==
  /\ \E q \in Queries \ {searchQuery} : searchQuery' = q
  /\ searchTimeout' = TRUE
  /\ last' = Observed("input", "none", FALSE)
  /\ UNCHANGED <<PagesButLast, HeroDom, PlayerDom, TvDom, activeType, searchRequests,
                 resultsArea>>

\* The debounce timer fires: handleSearch().
SearchTimeoutFires ==
  /\ searchTimeout
  /\ searchQuery = "" \/ Len(searchRequests) < MaxPending
  /\ LET h == handleSearch(searchQuery, activeType, searchRequests, resultsArea)
     IN /\ searchRequests' = h.requests
        /\ resultsArea' = h.area
  /\ searchTimeout' = FALSE
  /\ last' = Observed("searchTimeout", "none", FALSE)
  /\ UNCHANGED <<PagesButLast, HeroDom, PlayerDom, TvDom, searchQuery, activeType>>

\* A click on a type filter button: it becomes the active one, and the
\* search is run again at once when the box holds a query.
SearchFilterClick ==
  /\ searchQuery = "" \/ Len(searchRequests) < MaxPending
  /\ \E type \in Filters :
       /\ activeType' = type
       /\ IF searchQuery # ""
          THEN LET h == handleSearch(searchQuery, type, searchRequests, resultsArea)
               IN /\ searchRequests' = h.requests
                  /\ resultsArea' = h.area
          ELSE UNCHANGED <<searchRequests, resultsArea>>
  /\ last' = Observed("filter", "none", FALSE)
  /\ UNCHANGED <<PagesButLast, HeroDom, PlayerDom, TvDom, searchQuery, searchTimeout>>

\* A search request resolved: its handleSearch call renders its results.
SearchRequestResolved ==
  \E i \in 1..Len(searchRequests) :
     /\ resultsArea' = handleSearchResolved(searchRequests[i])
     /\ searchRequests' = RemoveAt(searchRequests, i)
     /\ last' = Observed("search", "rendered", FALSE)
     /\ UNCHANGED <<PagesButLast, HeroDom, PlayerDom, TvDom, searchQuery, activeType,
                    searchTimeout>>

\* A search request failed: the catch block logs; the area is left as it is.
SearchRequestFailed ==
  \E i \in 1..Len(searchRequests) :
     /\ searchRequests' = RemoveAt(searchRequests, i)
     /\ last' = Observed("search", "failed", FALSE)
     /\ UNCHANGED <<PagesButLast, HeroDom, PlayerDom, TvDom, searchQuery, activeType,
                    searchTimeout, resultsArea>>

SearchNext ==
  \/ SearchInput
  \/ SearchTimeoutFires
  \/ SearchFilterClick
  \/ SearchRequestResolved
  \/ SearchRequestFailed

SearchSpec == SearchInit /\ [][SearchNext]_vars
\* ------------------------------------------------- main.js: hero carousel
MaxSlides == 3
MaxTimerId == 6

\* startHeroInterval that forgets to clear the interval it replaces.
startHeroInterval_noClear(sched, handle, fresh) ==
  [scheduled |-> sched \cup {fresh}, heroInterval |-> fresh, nextTimerId |-> fresh + 1]

\* startHeroInterval: clearInterval(heroInterval), then setInterval returns
\* a fresh id, which is kept in heroInterval.
startHeroInterval(sched, handle, fresh) ==
  [scheduled |-> (sched \ {handle}) \cup {fresh},
   heroInterval |-> fresh, nextTimerId |-> fresh + 1]

\* showHeroSlide with no clamping of the index.
showHeroSlide_noClamp(index) ==
  IF index + 1 \notin 1..Len(slides)
  THEN [threw |-> TRUE, slides |-> [k \in 1..Len(slides) |-> FALSE],
        dots |-> [k \in 1..Len(dots) |-> FALSE],
        currentHeroIndex |-> currentHeroIndex,
        scheduled |-> scheduled, heroInterval |-> heroInterval,
        nextTimerId |-> nextTimerId]
  ELSE LET t == startHeroInterval(scheduled, heroInterval, nextTimerId)
       IN [threw |-> FALSE,
           slides |-> [k \in 1..Len(slides) |-> k = index + 1],
           dots |-> [k \in 1..Len(dots) |-> k = index + 1],
           currentHeroIndex |-> index,
           scheduled |-> t.scheduled, heroInterval |-> t.heroInterval,
           nextTimerId |-> t.nextTimerId]

\* showHeroSlide(index) on the carousel as it is: the index is clamped, every
\* slide and dot loses 'active', the slide and the dot at the index get it,
\* currentHeroIndex is set and the interval restarted.  With no slide at the
\* index (an empty carousel) slides[index].classList throws a TypeError
\* before anything is assigned.
showHeroSlide(index) ==
  LET clamped == IF index >= Len(slides) THEN 0
                 ELSE IF index < 0 THEN Len(slides) - 1 ELSE index
  IN IF clamped + 1 \notin 1..Len(slides)
     THEN [threw |-> TRUE, slides |-> [k \in 1..Len(slides) |-> FALSE],
           dots |-> [k \in 1..Len(dots) |-> FALSE],
           currentHeroIndex |-> currentHeroIndex,
           scheduled |-> scheduled, heroInterval |-> heroInterval,
           nextTimerId |-> nextTimerId]
     ELSE LET t == startHeroInterval(scheduled, heroInterval, nextTimerId)
          IN [threw |-> FALSE,
              slides |-> [k \in 1..Len(slides) |-> k = clamped + 1],
              dots |-> [k \in 1..Len(dots) |-> k = clamped + 1],
              currentHeroIndex |-> clamped,
              scheduled |-> t.scheduled, heroInterval |-> t.heroInterval,
              nextTimerId |-> t.nextTimerId]

\* A handler that ends in showHeroSlide(index).
Shows(op, index) ==
  /\ nextTimerId <= MaxTimerId
  /\ LET s == showHeroSlide(index)
     IN /\ slides' = s.slides
        /\ dots' = s.dots
        /\ currentHeroIndex' = s.currentHeroIndex
        /\ scheduled' = s.scheduled
        /\ heroInterval' = s.heroInterval
        /\ nextTimerId' = s.nextTimerId
        /\ last' = Observed(op, "none", s.threw)
  /\ UNCHANGED <<PagesButLast, PlayerDom, TvDom, SearchDom>>

HeroInit ==
  /\ PagesIdle("StreamVerse")
  /\ WidgetsIdle

\* populateHeroCarousel(items): one slide and one dot per item, the first of
\* each active; the prev/next listeners are attached and the interval is
\* started.  The trending list can hold no film or series at all.
PopulateHeroSlides ==
  /\ heroInterval = 0
  /\ \E n \in 0..MaxSlides :
       /\ slides' = [k \in 1..n |-> k = 1]
       /\ dots' = [k \in 1..n |-> k = 1]
  /\ LET t == startHeroInterval(scheduled, heroInterval, nextTimerId)
     IN /\ scheduled' = t.scheduled
        /\ heroInterval' = t.heroInterval
        /\ nextTimerId' = t.nextTimerId
  /\ last' = Observed("populateHeroCarousel", "none", FALSE)
  /\ UNCHANGED <<PagesButLast, PlayerDom, TvDom, SearchDom, currentHeroIndex>>

\* nextHeroSlide, from a click on #hero-next.
HeroNextClick ==
  /\ heroInterval # 0
  /\ Shows("nextHeroSlide", currentHeroIndex + 1)

\* prevHeroSlide, from a click on #hero-prev.
HeroPrevClick ==
  /\ heroInterval # 0
  /\ Shows("prevHeroSlide", currentHeroIndex - 1)

\* A click on a dot: showHeroSlide(index) with the index of the dot.
HeroDotClick ==
  \E index \in 0..(Len(dots) - 1) : Shows("dot", index)

\* A scheduled interval fires: nextHeroSlide.
HeroIntervalFires ==
  /\ \E id \in scheduled : TRUE
  /\ Shows("interval", currentHeroIndex + 1)

HeroNext ==
  \/ PopulateHeroSlides
  \/ HeroNextClick
  \/ HeroPrevClick
  \/ HeroDotClick
  \/ HeroIntervalFires

HeroSpec == HeroInit /\ [][HeroNext]_vars
\* ------------------------------------------------------------ observations
MainStored == localStorage[WATCH_LATER_KEY_MAIN]
AuroraStored == localStorage[WATCH_LATER_KEY]

\* A record with this id and this media kind is stored.
HasMain(ls, id, type) ==
  \E k \in 1..Len(ls[WATCH_LATER_KEY_MAIN].items) :
     /\ ls[WATCH_LATER_KEY_MAIN].items[k].id = id
     /\ ls[WATCH_LATER_KEY_MAIN].items[k].type = type

HasAurora(ls, id, media_type) ==
  \E k \in 1..Len(ls[WATCH_LATER_KEY].items) :
     /\ ls[WATCH_LATER_KEY].items[k].id = id
     /\ ls[WATCH_LATER_KEY].items[k].media_type = media_type

OtherType(media_type) == IF media_type = "movie" THEN "tv" ELSE "movie"

\* ------------------------------------------------------------------ claims

\* C1: whatever toggles (and removals) have run since the list was empty, no
\* two records of the stored list have the same id and the same media kind.
C1_UniqueKeys ==
  /\ \A i, j \in 1..Len(AuroraStored.items) :
       i # j => ~(/\ AuroraStored.items[i].id = AuroraStored.items[j].id
                  /\ AuroraStored.items[i].media_type = AuroraStored.items[j].media_type)
  /\ \A i, j \in 1..Len(MainStored.items) :
       i # j => ~(/\ MainStored.items[i].id = MainStored.items[j].id
                  /\ MainStored.items[i].type = MainStored.items[j].type)

\* A toggle has just added a record while the same id was already stored
\* with the other media kind, and a third record is stored too.
C1_Witness ==
  /\ last.op = "click" /\ last.ret = "true"
  /\ HasAurora(localStorage, 1, "movie") /\ HasAurora(localStorage, 1, "tv")
  /\ Len(AuroraStored.items) = 3

\* C6: when a series record and a movie record with the same id are both
\* stored, the removal of the series record takes out that record alone:
\* the movie record and all other records stay, in their order.
C6_RemoveOnlySeries ==
  [][\A k \in 1..Len(cards) :
       ( /\ RemoveClickAt(k)
         /\ cards[k].media_type = "tv"
         /\ HasAurora(localStorage, cards[k].id, "tv")
         /\ HasAurora(localStorage, cards[k].id, "movie") )
       => /\ HasAurora(localStorage', cards[k].id, "movie")
          /\ ~HasAurora(localStorage', cards[k].id, "tv")
          /\ AuroraStored'.items =
               SelectSeq(AuroraStored.items,
                  LAMBDA i : ~(i.id = cards[k].id /\ i.media_type = "tv"))
    ]_vars

\* The series record of id 1 has just been removed; the movie record of
\* id 1 and one more record are still stored.
C6_Witness ==
  /\ last.op = "remove" /\ last.ret = "removed"
  /\ HasAurora(localStorage, 1, "movie") /\ ~HasAurora(localStorage, 1, "tv")
  /\ Len(AuroraStored.items) = 2

\* C2: a toggle of (id, movie) leaves unchanged whether (id, series) is
\* stored, and a toggle of (id, series) leaves unchanged whether (id, movie)
\* is stored.
C2_KeyIndependence ==
  [][ /\ \A k \in 1..Len(buttons) :
           ClickAddListAt(k) =>
             ( HasMain(localStorage', parseInt(buttons[k].id), OtherType(buttons[k].type))
               <=> HasMain(localStorage, parseInt(buttons[k].id), OtherType(buttons[k].type)) )
      /\ \A k \in 1..Len(controls) :
           ClickSaveAt(k) =>
             ( HasAurora(localStorage', controls[k].id, OtherType(controls[k].media_type))
               <=> HasAurora(localStorage, controls[k].id, OtherType(controls[k].media_type)) )
    ]_vars

\* The keys of a stored list, in stored order.
MainKeys(ls) ==
  [k \in 1..Len(ls[WATCH_LATER_KEY_MAIN].items) |->
     <<ls[WATCH_LATER_KEY_MAIN].items[k].id, ls[WATCH_LATER_KEY_MAIN].items[k].type>>]
AuroraKeys(ls) ==
  [k \in 1..Len(ls[WATCH_LATER_KEY].items) |->
     <<ls[WATCH_LATER_KEY].items[k].id, ls[WATCH_LATER_KEY].items[k].media_type>>]
Members(keys) == { keys[k] : k \in 1..Len(keys) }
Without(keys, key) == SelectSeq(keys, LAMBDA x : x # key)

\* C3: toggle(x) called twice in a row leaves the stored list with the
\* members it had, and with all items other than x in their relative order.
C3_ToggleTwiceRestores ==
  \A n \in 1..MaxItems :
    /\ IsList(MainStored) =>
         LET x == datasetItem(main_addListButton(Catalog[n]))
             once == main_toggleWatchLater(localStorage, x.id, x)
             twice == main_toggleWatchLater(once.ls, x.id, x)
         IN /\ Members(MainKeys(twice.ls)) = Members(MainKeys(localStorage))
            /\ Without(MainKeys(twice.ls), <<x.id, x.type>>)
                 = Without(MainKeys(localStorage), <<x.id, x.type>>)
    /\ IsList(AuroraStored) =>
         \A p \in AuroraPages \ {"watch-later"} :
           LET x == savedItem(Catalog[n], Catalog[n].media_type)
               once == pageToggle(p, localStorage, x)
               twice == pageToggle(p, once.ls, x)
           IN /\ Members(AuroraKeys(twice.ls)) = Members(AuroraKeys(localStorage))
              /\ Without(AuroraKeys(twice.ls), <<x.id, x.media_type>>)
                   = Without(AuroraKeys(localStorage), <<x.id, x.media_type>>)

\* C4: when the stored string is no JSON text, load() of every variant of
\* the store returns an empty list and raises no error.
C4_LoadFailsOpen ==
  /\ MainStored.jt = "garbage" =>
       getWatchLaterList(localStorage) = [threw |-> FALSE, val |-> JsArray(<<>>)]
  /\ AuroraStored.jt = "garbage" =>
       /\ getWatchLater(localStorage) = JsArray(<<>>)
       /\ movie_getWatchLater(localStorage) = JsArray(<<>>)
       /\ explore_getWatchLater(localStorage) = JsArray(<<>>)
       /\ wl_getWatchLater(localStorage) = JsArray(<<>>)

\* C5: toggle(x) returns true exactly when no record with x's id and media
\* kind was stored before the call and false otherwise, and right after the
\* call the record is stored exactly when the returned flag is true.
C5_ToggleFlag ==
  [][ /\ \A k \in 1..Len(buttons) :
           (ClickAddListAt(k) /\ IsList(MainStored)) =>
             /\ last'.ret =
                  IF HasMain(localStorage, parseInt(buttons[k].id), buttons[k].type)
                  THEN "false" ELSE "true"
             /\ HasMain(localStorage', parseInt(buttons[k].id), buttons[k].type)
                  <=> (last'.ret = "true")
      /\ \A k \in 1..Len(controls) :
           (ClickSaveAt(k) /\ IsList(AuroraStored)) =>
             /\ last'.ret =
                  IF HasAurora(localStorage, controls[k].id, controls[k].media_type)
                  THEN "false" ELSE "true"
             /\ HasAurora(localStorage', controls[k].id, controls[k].media_type)
                  <=> (last'.ret = "true")
    ]_vars

\* C7: contains(id, mediaKind) is true exactly when a stored record matches
\* both the id and the media kind.
C7_ContainsMatchesPair ==
  \A n \in 1..MaxItems :
    LET id == Catalog[n].id
        media_type == Catalog[n].media_type
    IN /\ IsList(MainStored) =>
            checkWatchLaterStatus(localStorage, id)
              = [threw |-> FALSE, val |-> HasMain(localStorage, id, media_type)]
       /\ IsList(AuroraStored) =>
            /\ savedCheck(getWatchLater(localStorage), id, media_type)
                 = [threw |-> FALSE, val |-> HasAurora(localStorage, id, media_type)]
            /\ savedCheck(explore_getWatchLater(localStorage), id, media_type)
                 = [threw |-> FALSE, val |-> HasAurora(localStorage, id, media_type)]
            /\ savedCheck(movie_getWatchLater(localStorage), id, media_type)
                 = [threw |-> FALSE, val |-> HasAurora(localStorage, id, media_type)]

\* C8: when the stored string is the JSON text of something that is not an
\* array (null, a number, an object), load() returns an empty list, and no
\* handler that runs on it ends in an error.
NonArrayJson == {"null", "number", "object"}

C8_SchemaMismatchFailsOpen ==
  /\ MainStored.jt \in NonArrayJson =>
       /\ getWatchLaterList(localStorage) = [threw |-> FALSE, val |-> JsArray(<<>>)]
       /\ ~last.threw
  /\ AuroraStored.jt \in NonArrayJson =>
       /\ getWatchLater(localStorage) = JsArray(<<>>)
       /\ movie_getWatchLater(localStorage) = JsArray(<<>>)
       /\ explore_getWatchLater(localStorage) = JsArray(<<>>)
       /\ wl_getWatchLater(localStorage) = JsArray(<<>>)
       /\ ~last.threw

\* Every control of the page for this item shows the item's membership.
MainInSync(btns, ls, id, type) ==
  \A j \in 1..Len(btns) :
    (parseInt(btns[j].id) = id /\ btns[j].type = type)
      => (ButtonShowsAdded(btns[j]) <=> HasMain(ls, id, type))

AuroraInSync(ctls, ls, id, media_type) ==
  \A j \in 1..Len(ctls) :
    (ctls[j].id = id /\ ctls[j].media_type = media_type)
      => (ControlShowsAdded(ctls[j]) <=> HasAurora(ls, id, media_type))

\* C9: on a page whose controls for an item all show the item's membership,
\* a click on one of them leaves all of them showing the same state, the
\* item's membership after the click.
C9_ClickKeepsControlsInSync ==
  [][ /\ \A k \in 1..Len(buttons) :
           ( /\ ClickAddListAt(k) /\ ~last'.threw
             /\ MainInSync(buttons, localStorage, parseInt(buttons[k].id), buttons[k].type) )
           => MainInSync(buttons', localStorage', parseInt(buttons[k].id), buttons[k].type)
      /\ \A k \in 1..Len(controls) :
           ( /\ ClickSaveAt(k) /\ ~last'.threw
             /\ AuroraInSync(controls, localStorage, controls[k].id, controls[k].media_type) )
           => AuroraInSync(controls', localStorage', controls[k].id, controls[k].media_type)
    ]_vars

\* C10: when updateAllWatchLaterButtons has completed, every button of the
\* page shows the added state exactly when a record with the button's id
\* and media kind is stored, and the outline state otherwise.
C10_RefreshAllShowsMembership ==
  (last.op = "populateMediaRow" /\ ~last.threw) =>
    \A k \in 1..Len(buttons) :
      LET stored == HasMain(localStorage, parseInt(buttons[k].id), buttons[k].type)
      IN /\ buttons[k].added = stored
         /\ buttons[k].icon = IF stored THEN "bookmark" ELSE "bookmark_border"
         /\ buttons[k].ariaLabel = IF stored THEN "Remove from Watch Later"
                                   ELSE "Add to Watch Later"

\* C11: updateAllWatchLaterButtons called twice in a row on an unchanged
\* store leaves every button with the icon, label and added class the first
\* call gave it; and a call right after populateMediaRow's own call changes
\* nothing.
C11_RefreshAllIdempotent ==
  LET once == updateAllWatchLaterButtons(localStorage, buttons)
      twice == updateAllWatchLaterButtons(localStorage, once.buttons)
  IN /\ twice = once
     /\ last.op = "populateMediaRow" => once.buttons = buttons

\* populateMediaRow has refreshed two buttons, one shown added and one not.
C11_Witness ==
  /\ last.op = "populateMediaRow" /\ ~last.threw
  /\ Len(buttons) = 2
  /\ buttons[1].added /\ ~buttons[2].added

\* C12: directly after a click on a save control has toggled its item, the
\* clicked control shows the added state exactly when a record with the
\* control's id and media kind is in the stored list.
C12_ClickedControlShowsMembership ==
  [][ /\ \A k \in 1..Len(buttons) :
           (ClickAddListAt(k) /\ ~last'.threw) =>
             ( ButtonShowsAdded(buttons'[k])
               <=> HasMain(localStorage', parseInt(buttons[k].id), buttons[k].type) )
      /\ \A k \in 1..Len(controls) :
           (ClickSaveAt(k) /\ ~last'.threw) =>
             ( ControlShowsAdded(controls'[k])
               <=> HasAurora(localStorage', controls[k].id, controls[k].media_type) )
    ]_vars

\* On the explore page a click has just removed the record of the second
\* card, whose star went back to white, while the first card's stays gold.
C12_Witness ==
  /\ page = "explore" /\ last.op = "click" /\ last.ret = "false"
  /\ Len(controls) = 2
  /\ controls[1].shown = "#ffd700" /\ controls[2].shown = "#fff"
  /\ HasAurora(localStorage, controls[1].id, controls[1].media_type)
  /\ ~HasAurora(localStorage, controls[2].id, controls[2].media_type)

BothDone == \A t \in Tabs : tabs[t].pc = "done"

\* The store after tab a's toggle alone, and after a's toggle then b's.
OnlyTab(a) == toggled(site, start, tabs[a].item)
TabThenTab(a, b) == toggled(site, OnlyTab(a), tabs[b].item)

\* C13: two tabs share the storage and each runs toggle as load, mutate,
\* save.  When both calls have completed the stored list is that of one of
\* the two serial orders, or that of one tab's toggle alone; the second
\* case, a lost update, does happen.
C13_InterleavedToggleOutcomes ==
  BothDone =>
    localStorage \in {TabThenTab(1, 2), TabThenTab(2, 1), OnlyTab(1), OnlyTab(2)}

\* Both toggles completed, on titles with different ids, and the stored
\* list is the one tab 2's toggle alone gives: tab 1's update is lost.
C13_Witness ==
  /\ BothDone
  /\ tabs[1].item.id # tabs[2].item.id
  /\ localStorage = OnlyTab(2)
  /\ localStorage \notin {TabThenTab(1, 2), TabThenTab(2, 1)}

\* The record the other tab has just pushed: the last one of the stored list.
JustAdded(stored) == stored.items[Len(stored.items)]

\* C14: a mutating handler works on the list it reads in its own run: when
\* another tab has added a record after this page was rendered, a click on
\* a save control or on a remove button of this page (for another item than
\* that record) leaves the other tab's record stored.
C14_HandlerKeepsOtherTabsRecord ==
  [][ (last.op = "otherTab" /\ last.ret = "added") =>
        /\ \A k \in 1..Len(buttons) :
             ( /\ ClickAddListAt(k) /\ ~last'.threw
               /\ <<parseInt(buttons[k].id), buttons[k].type>>
                    # <<JustAdded(MainStored).id, JustAdded(MainStored).type>> )
             => HasMain(localStorage', JustAdded(MainStored).id, JustAdded(MainStored).type)
        /\ \A k \in 1..Len(controls) :
             ( /\ ClickSaveAt(k) /\ ~last'.threw
               /\ <<controls[k].id, controls[k].media_type>>
                    # <<JustAdded(AuroraStored).id, JustAdded(AuroraStored).media_type>> )
             => HasAurora(localStorage', JustAdded(AuroraStored).id,
                          JustAdded(AuroraStored).media_type)
        /\ \A k \in 1..Len(cards) :
             ( /\ RemoveClickAt(k) /\ ~last'.threw
               /\ <<cards[k].id, cards[k].media_type>>
                    # <<JustAdded(AuroraStored).id, JustAdded(AuroraStored).media_type>> )
             => HasAurora(localStorage', JustAdded(AuroraStored).id,
                          JustAdded(AuroraStored).media_type)
    ]_vars

\* C15: for every list L of records the site builds, save(L) followed by
\* load() returns L, the same records in the same order, whatever value
\* was stored before the save.
C15_SaveLoadRoundTrip ==
  \A L \in StartLists(site) :
    /\ site = "StreamVerse" =>
         getWatchLaterList(saveWatchLaterList(localStorage, L))
           = [threw |-> FALSE, val |-> JsArray(L)]
    /\ site = "Aurora" =>
         wl_getWatchLater(wl_saveWatchLater(localStorage, L)) = JsArray(L)

\* C16: insertion order is kept.  A toggle of an absent item puts its record
\* after all stored records; a toggle of a stored item and a removal on the
\* list page take that record out and keep the others in their order; the
\* list page shows the records (of the active filter) in stored order.
C16_InsertionOrderKept ==
  [][ /\ \A k \in 1..Len(buttons) :
           (ClickAddListAt(k) /\ IsList(MainStored)) =>
             LET key == <<parseInt(buttons[k].id), buttons[k].type>>
             IN MainKeys(localStorage') =
                  IF HasMain(localStorage, key[1], key[2])
                  THEN Without(MainKeys(localStorage), key)
                  ELSE Append(MainKeys(localStorage), key)
      /\ \A k \in 1..Len(controls) :
           (ClickSaveAt(k) /\ IsList(AuroraStored)) =>
             LET key == <<controls[k].id, controls[k].media_type>>
             IN AuroraKeys(localStorage') =
                  IF HasAurora(localStorage, key[1], key[2])
                  THEN Without(AuroraKeys(localStorage), key)
                  ELSE Append(AuroraKeys(localStorage), key)
      /\ \A k \in 1..Len(cards) :
           (RemoveClickAt(k) /\ IsList(AuroraStored)) =>
             AuroraKeys(localStorage') =
               Without(AuroraKeys(localStorage), <<cards[k].id, cards[k].media_type>>)
      /\ ( /\ page' = "watch-later" /\ ~last'.threw
           /\ \/ last'.op = "renderList"
              \/ last'.op = "remove" /\ last'.ret = "removed" )
         => cards' = IF currentFilter' = "all" THEN AuroraStored'.items
                     ELSE SelectSeq(AuroraStored'.items,
                                    LAMBDA i : i.media_type = currentFilter')
    ]_vars

\* C17: on a stored list that holds a record with key (id, kind), the
\* removal of the list page leaves the same stored list as the toggle (of
\* movie.js, explore.js or script.js) of an item with that key.
C17_RemoveEqualsToggle ==
  [][ \A k \in 1..Len(cards) :
        ( /\ RemoveClickAt(k)
          /\ IsList(AuroraStored)
          /\ HasAurora(localStorage, cards[k].id, cards[k].media_type) )
        => \A p \in AuroraPages \ {"watch-later"} :
             localStorage'
               = pageToggle(p, localStorage, savedItem(cards[k], cards[k].media_type)).ls
    ]_vars

\* The list page has just removed the movie record of id 1 from a list of
\* three; the series record of id 1 and a third record are still stored.
C17_Witness ==
  /\ last.op = "remove" /\ last.ret = "removed"
  /\ ~HasAurora(localStorage, 1, "movie") /\ HasAurora(localStorage, 1, "tv")
  /\ Len(AuroraStored.items) = 2

\* The page's load sequence has run to its end: on the StreamVerse index
\* page a row's populateMediaRow completed, on the Aurora index page a row
\* was populated after the hero carousel, on the Aurora movie page the
\* header was built; and the stored value is a list.
PageLoaded ==
  /\ ~last.threw
  /\ IsList(MainStored) /\ IsList(AuroraStored)
  /\ \/ site = "StreamVerse" /\ last.op = "populateMediaRow"
     \/ site = "Aurora" /\ page = "index" /\ last.op = "populateRow"
     \/ site = "Aurora" /\ page = "movie" /\ last.op = "buildHeader"

\* C18: once a page has finished loading, every save control rendered on
\* it shows the saved state exactly when its item is in the stored list.
C18_LoadedPageShowsMembership ==
  PageLoaded =>
    /\ \A k \in 1..Len(buttons) :
         ButtonShowsAdded(buttons[k])
           <=> HasMain(localStorage, parseInt(buttons[k].id), buttons[k].type)
    /\ \A k \in 1..Len(controls) :
         ControlShowsAdded(controls[k])
           <=> HasAurora(localStorage, controls[k].id, controls[k].media_type)

\* C19: whenever a fetch of page content has failed, the content area it
\* was for shows an error message, and the handler ended without an
\* uncaught error.
C19_FetchFailureShowsMessage ==
  last.op = "fetchFailed" => (last.ret \in notices /\ ~last.threw)

\* The ways the pages hold a rating of zero or no rating.
ZeroOrAbsent == {"0", "undefined", "null", "NaN"}

\* C20: a rating of zero and an absent rating render the same unrated
\* placeholder wherever a rating is displayed: in the badges of main.js, in
\* the cards and hero slides of the Aurora pages, in the cards of the list
\* page, and in the header of the movie page.
C20_ZeroAndAbsentRatingLookAlike ==
  /\ \A k \in 1..Len(buttons) :
       buttons[k].rating \in ZeroOrAbsent => formatRating(buttons[k].rating) = "N/A"
  /\ \A k \in 1..Len(controls) :
       controls[k].vote_average \in ZeroOrAbsent
         => cardRating(controls[k].vote_average) = "-"
  /\ \A k \in 1..Len(cards) :
       cards[k].vote_average \in ZeroOrAbsent => cardRating(cards[k].vote_average) = "-"
  /\ (last.op = "buildHeader" /\ IsList(AuroraStored)) =>
       \/ ~last.threw /\ last.ret = "-"
       \/ ~last.threw /\ Truthy(controls[1].vote_average)
                      /\ last.ret = toFixed1(controls[1].vote_average)

\* The text renderList writes for a list of n records.
CountText(n) == ToString(n) \o " item" \o (IF n # 1 THEN "s" ELSE "") \o " saved"

\* A render of the list page has just run: on page load, after a filter
\* click, or after a removal.
ListRendered ==
  /\ page = "watch-later"
  /\ \/ last.op = "renderList"
     \/ last.op = "remove" /\ last.ret = "removed"

\* C21: on the watch-later page, after every render the subtext shows the
\* total number of stored records, whatever the active type filter is.
C21_SubtextShowsTotal ==
  ListRendered => subtext = CountText(Len(AuroraStored.items))

\* Stored values with no list in them: text that is no JSON, and JSON text
\* of something that is not an array.
Undecodable == {"garbage"} \cup NonArrayJson

\* C22: when the stored value cannot be decoded, a toggle of x treats the
\* list as empty: it returns true and leaves stored a list holding exactly
\* x in place of the undecodable value.
C22_ToggleOnUndecodableStore ==
  [][ /\ \A k \in 1..Len(buttons) :
           (ClickAddListAt(k) /\ MainStored.jt \in Undecodable) =>
             /\ ~last'.threw /\ last'.ret = "true"
             /\ MainKeys(localStorage') = <<<<parseInt(buttons[k].id), buttons[k].type>>>>
             /\ MainStored'.jt = "array"
      /\ \A k \in 1..Len(controls) :
           (ClickSaveAt(k) /\ AuroraStored.jt \in Undecodable) =>
             /\ ~last'.threw /\ last'.ret = "true"
             /\ AuroraKeys(localStorage') = <<<<controls[k].id, controls[k].media_type>>>>
             /\ AuroraStored'.jt = "array"
    ]_vars

\* C23: when the storage write inside toggle fails, the error leaves toggle
\* and the click handler, the stored list keeps the value it had before the
\* call, and the clicked control keeps its visual state.
C23_WriteFailureChangesNothing ==
  [][ /\ \A k \in 1..Len(buttons) :
           ClickAddListWriteFailedAt(k) =>
             /\ last'.threw
             /\ localStorage' = localStorage
             /\ buttons'[k] = buttons[k]
      /\ \A k \in 1..Len(controls) :
           ClickSaveWriteFailedAt(k) =>
             /\ last'.threw
             /\ localStorage' = localStorage
             /\ controls'[k] = controls[k]
    ]_vars

\* On the explore page a click on the white star of an item that is not
\* stored has just failed in setItem; two other records are stored.
C23_Witness ==
  /\ page = "explore"
  /\ last.op = "click" /\ last.ret = "QuotaExceededError" /\ last.threw
  /\ Len(AuroraStored.items) = 2
  /\ \E k \in 1..Len(controls) :
       /\ ~ControlShowsAdded(controls[k])
       /\ ~HasAurora(localStorage, controls[k].id, controls[k].media_type)

\* C24: main.js stores under 'streamVerseWatchLater', the watch-later page
\* loads 'watchLaterItems': no click on a main.js add-list button changes
\* the list that page loads nor the cards it would render, so the item saved
\* by the click is not among them.
C24_MainToggleInvisibleToListPage ==
  [][ \A k \in 1..Len(buttons) :
        ClickAddListAt(k) =>
          /\ WATCH_LATER_KEY_MAIN # WATCH_LATER_KEY
          /\ wl_getWatchLater(localStorage') = wl_getWatchLater(localStorage)
          /\ renderList(localStorage', "all", "", <<>>)
               = renderList(localStorage, "all", "", <<>>)
          /\ (HasMain(localStorage', parseInt(buttons[k].id), buttons[k].type)
                /\ ~HasMain(localStorage, parseInt(buttons[k].id), buttons[k].type))
               => \A c \in 1..Len(renderList(localStorage', "all", "", <<>>).cards) :
                     renderList(localStorage', "all", "", <<>>).cards[c].id
                        # parseInt(buttons[k].id)
    ]_vars

\* A main.js click has just stored a second record, and the watch-later
\* page would render no card.
C24_Witness ==
  /\ site = "StreamVerse"
  /\ last.op = "click" /\ ~last.threw
  /\ IsList(MainStored) /\ Len(MainStored.items) = 2
  /\ renderList(localStorage, "all", "", <<>>).cards = <<>>
  /\ renderList(localStorage, "all", "", <<>>).subtext = CountText(0)

\* The stored records a filter lets through, in stored order.
Matching(items, type) ==
  IF type = "all" THEN items
  ELSE SelectSeq(items, LAMBDA i : i.media_type = type)

\* C25: on the watch-later page, after any filter clicks and removals made
\* on that page, the cards shown are exactly the stored records whose media
\* type matches the active filter (all of them for 'all'), in stored order.
C25_CardsAreFilteredStore ==
  cards = Matching(AuroraStored.items, currentFilter)

\* Under the 'tv' filter a card has just been removed; a series and a film
\* are still stored and only the series is shown.
C25_Witness ==
  /\ currentFilter = "tv"
  /\ last.op = "remove" /\ last.ret = "removed" /\ ~last.threw
  /\ Len(AuroraStored.items) = 2
  /\ Len(cards) = 1
  /\ cards[1].media_type = "tv"

\* C26: whenever the overlay player is closed the player iframe has an empty
\* source, also when the overlay was closed while the detail fetch of
\* openPlayer was pending and the fetch completed afterwards.
C26_ClosedPlayerHasEmptySource ==
  ~overlayOpen => playerIframe = ""

\* C27: on the TV page, when season pills have been clicked in any order and
\* every episode request has completed, in any order, the episodes in the
\* grid are those of the season whose pill is active.
C27_GridShowsActiveSeason ==
  (episodeFetches = <<>> /\ episodeGrid.t = "episodes")
     => episodeGrid.season = activePill

\* What the results area shows for a query and a type filter.
Shown(query, type) ==
  IF query = "" THEN [t |-> "prompt", items |-> <<>>]
  ELSE handleSearchResolved([query |-> query, typeFilter |-> type])

\* C28: on the explore page, when typing and filter clicks have stopped and
\* every search request has completed, in any order, a rendered response
\* leaves in the results area the results of the latest query text under
\* the active type filter.
C28_ResultsOfLatestQuery ==
  ( /\ ~searchTimeout
    /\ searchRequests = <<>>
    /\ last.op = "search" /\ last.ret = "rendered" )
     => resultsArea = Shown(searchQuery, activeType)

\* C29: in the hero carousel of main.js with at least one slide, after any
\* next, previous, dot and timer events exactly one slide and exactly one
\* dot are active, both at currentHeroIndex, which stays within 0..n-1; next
\* from the last slide goes to slide 0 and previous from slide 0 goes to the
\* last slide.
C29_OneActiveSlideAtIndex ==
  /\ [](Len(slides) >= 1 =>
          /\ currentHeroIndex \in 0..(Len(slides) - 1)
          /\ Len(dots) = Len(slides)
          /\ \A k \in 1..Len(slides) :
                /\ slides[k] <=> (k = currentHeroIndex + 1)
                /\ dots[k] <=> (k = currentHeroIndex + 1))
  /\ [][ /\ (HeroNextClick /\ Len(slides) >= 1 /\ currentHeroIndex = Len(slides) - 1)
              => currentHeroIndex' = 0
         /\ (HeroPrevClick /\ Len(slides) >= 1 /\ currentHeroIndex = 0)
              => currentHeroIndex' = Len(slides) - 1
         /\ (HeroNextClick /\ currentHeroIndex < Len(slides) - 1)
              => currentHeroIndex' = currentHeroIndex + 1
         /\ (HeroPrevClick /\ currentHeroIndex > 0)
              => currentHeroIndex' = currentHeroIndex - 1
       ]_vars

\* Previous has just been clicked and the last of three slides is shown:
\* the click came on slide 0 and wrapped around.
C29_Witness ==
  /\ last.op = "prevHeroSlide" /\ ~last.threw
  /\ Len(slides) = 3
  /\ currentHeroIndex = 2
  /\ slides[3] /\ dots[3]

\* C30: at every moment at most one hero auto-rotate interval is
\* scheduled, and every slide change, by a click or by the interval, cancels
\* the scheduled interval and starts a new one.
C30_OneIntervalRestartedOnChange ==
  /\ [](Cardinality(scheduled) <= 1)
  /\ [][ slides' # slides =>
           /\ heroInterval \notin scheduled'
           /\ heroInterval' # heroInterval
           /\ scheduled' = {heroInterval'}
       ]_vars

\* The interval has just moved the carousel to its second slide, after
\* earlier restarts; the one scheduled interval is the one held in
\* heroInterval.
C30_Witness ==
  /\ last.op = "interval" /\ ~last.threw
  /\ currentHeroIndex = 1
  /\ heroInterval >= 3
  /\ scheduled = {heroInterval}

====
